---- MODULE Spec2Model ----
(***************************************************************************)
(* Model of medication.py: a single SQLite table `medications` accessed    *)
(* through add / get / search / update / delete functions, each of which   *)
(* opens its own connection.                                               *)
(*                                                                         *)
(* Conventions                                                             *)
(*  - a text value is a sequence of one-character strings;                 *)
(*  - a table row is the 9-tuple sqlite3 returns, a "dict" is a record;    *)
(*  - Python's None as a row or a dict is the empty sequence;              *)
(*  - the eight non-id arguments of add/update are a record `m`; an        *)
(*    argument passed as None is a key missing from `m`.                   *)
(***************************************************************************)
EXTENDS Integers, Sequences, FiniteSets, TLC

VARIABLES table, openConns, call, pc, args, lock, pending, outcome

vars == <<table, openConns, call, pc, args, lock, pending, outcome>>
concVars == <<pc, args, lock, pending, outcome>>

(***************************************************************************)
(* Bounds and input sets                                                   *)
(***************************************************************************)
\* ids are 1..MaxId; stands for range(1, 11) of create_random_data as well
MaxId == 2

Ids == 1..MaxId

None == <<>>

\* the columns of CREATE TABLE medications, in declaration order
Columns ==
  <<"id", "person_name", "age", "condition", "medicine_name",
    "dosage", "frequency", "start_date", "end_date">>

\* the eight NOT NULL columns that are parameters of add/update besides id
Params == {Columns[i] : i \in 2..Len(Columns)}

\* setUp's record (person "Test Name" ...), texts shortened
TestFields ==
  [person_name |-> <<"A", "l", "i">>, age |-> 30,
   condition |-> <<"f", "l", "u">>, medicine_name |-> <<"A", "_", "1">>,
   dosage |-> <<"1">>, frequency |-> <<"1", "x">>,
   start_date |-> <<"0", "1">>, end_date |-> <<"0", "2">>]

\* test_update_medications' record: differs from TestFields in every field
UpdatedFields ==
  [person_name |-> <<"a", "_", "b">>, age |-> 40,
   condition |-> <<"F", "%">>, medicine_name |-> <<"a", "b">>,
   dosage |-> <<"3">>, frequency |-> <<"3", "x">>,
   start_date |-> <<"0", "3">>, end_date |-> <<"0", "4">>]

\* a second record create_random_data can draw (dates are fixed there)
OtherFields ==
  [person_name |-> <<"L", "i", "u">>, age |-> 85,
   condition |-> <<"f", "l", "u">>, medicine_name |-> <<"a", "b">>,
   dosage |-> <<"2">>, frequency |-> <<"1", "x">>,
   start_date |-> <<"0", "1">>, end_date |-> <<"0", "2">>]

\* m with the argument k passed as None
Without(m, k) == [c \in (DOMAIN m) \ {k} |-> m[c]]

WellFormed == {TestFields, UpdatedFields, OtherFields}

RandomFields == {TestFields, OtherFields}

Fields ==
  WellFormed \cup {Without(TestFields, "person_name"),
                   Without(UpdatedFields, "end_date")}

\* search strings
Needles ==
  {<<>>, <<"a">>, <<"l", "I">>, <<"_">>, <<"%">>, <<"A", "_">>, <<"u">>}

Procs == {"A", "B"}

(***************************************************************************)
(* The storage engine                                                      *)
(***************************************************************************)
\* the tuple bound to INSERT's nine placeholders
MakeRow(id, m) ==
  <<id, m.person_name, m.age, m.condition, m.medicine_name,
    m.dosage, m.frequency, m.start_date, m.end_date>>

\* faulty variant: the lookup by id finds nothing
RowsWithIdNone(t, id) == {r \in t : FALSE}

\* WHERE id = ? : the rowid lookup
RowsWithId(t, id) == {r \in t : r[1] = id}

\* the first row of a result set in rowid order, None when it is empty
fetchone(rows) ==
  IF rows = {} THEN None
  ELSE CHOOSE r \in rows : \A q \in rows : r[1] <= q[1]

RECURSIVE fetchall(_)
fetchall(rows) ==
  IF rows = {} THEN <<>>
  ELSE LET r == fetchone(rows) IN <<r>> \o fetchall(rows \ {r})

\* a NOT NULL column receives NULL
NotNullViolated(m) == DOMAIN m # Params

\* faulty variant: the table is declared without PRIMARY KEY
UniqueNeverViolated(t, id) == FALSE

\* id INTEGER PRIMARY KEY: the rowid is already taken
UniqueViolated(t, id) == RowsWithId(t, id) # {}

\* ASCII case folding of LIKE
LowerOf == ("A" :> "a") @@ ("F" :> "f") @@ ("L" :> "l") @@ ("I" :> "i")

Lower(ch) == IF ch \in DOMAIN LowerOf THEN LowerOf[ch] ELSE ch

\* SQLite's LIKE: % any run, _ any one character, letters compared caseless
RECURSIVE Like(_, _)
Like(p, s) ==
  IF p = <<>> THEN s = <<>>
  ELSE IF Head(p) = "%"
    THEN \E k \in 0..Len(s) : Like(Tail(p), SubSeq(s, k + 1, Len(s)))
  ELSE IF s = <<>> THEN FALSE
  ELSE IF Head(p) = "_" THEN Like(Tail(p), Tail(s))
  ELSE Lower(Head(p)) = Lower(Head(s)) /\ Like(Tail(p), Tail(s))

\* f"%{text}%"
Wrap(text) == <<"%">> \o text \o <<"%">>

\* SELECT * FROM medications WHERE <column col> LIKE ?
SelectLike(t, col, text) == {r \in t : Like(Wrap(text), r[col])}

get_connection(n) == n + 1

close(n) == n - 1

\* faulty variant: the two date columns are read from each other's index
row_2_dict_swapped(row) ==
  IF row = None THEN None
  ELSE [id |-> row[1], person_name |-> row[2], age |-> row[3],
        condition |-> row[4], medicine_name |-> row[5], dosage |-> row[6],
        frequency |-> row[7], start_date |-> row[9], end_date |-> row[8]]

row_2_dict(row) ==
  IF row = None THEN None
  ELSE [id |-> row[1], person_name |-> row[2], age |-> row[3],
        condition |-> row[4], medicine_name |-> row[5], dosage |-> row[6],
        frequency |-> row[7], start_date |-> row[8], end_date |-> row[9]]

(***************************************************************************)
(* The public functions, as functions of the table t and the number n of   *)
(* open connections; each returns the new table, the new number of open    *)
(* connections, how the call ended and what it returned.                   *)
(***************************************************************************)
Ret(t, n, o, v) == [table |-> t, open |-> n, outcome |-> o, result |-> v]

\* SELECT id FROM medications WHERE id = ?
SelectId(t, id) == {<<r[1]>> : r \in RowsWithId(t, id)}

\* faulty variant: the SET list leaves out dosage
SqlUpdateNoDosage(t, id, m) ==
  {IF r[1] = id THEN [MakeRow(r[1], m) EXCEPT ![6] = r[6]] ELSE r : r \in t}

\* UPDATE medications SET <the eight columns> WHERE id = ?
SqlUpdate(t, id, m) ==
  {IF r[1] = id THEN MakeRow(r[1], m) ELSE r : r \in t}

\* faulty variant: DELETE without its WHERE clause
SqlDeleteAll(t, id) == {}

\* DELETE FROM medications WHERE id = ?
SqlDelete(t, id) == t \ RowsWithId(t, id)

\* faulty variant: no existence check before the INSERT
add_medication_nocheck(t, n, id, m) ==
  LET n1 == get_connection(n)
  IN  IF NotNullViolated(m) \/ UniqueViolated(t, id)
        THEN Ret(t, n1, "IntegrityError", None)
      ELSE Ret(t \cup {MakeRow(id, m)}, close(n1), "ok", None)

add_medication(t, n, id, m) ==
  LET n1 == get_connection(n)
      existing == fetchone(SelectId(t, id))
  IN  IF existing # None
        THEN Ret(t, close(n1), "ValueError", None)
      ELSE IF NotNullViolated(m) \/ UniqueViolated(t, id)
        THEN Ret(t, n1, "IntegrityError", None)
      ELSE Ret(t \cup {MakeRow(id, m)}, close(n1), "ok", None)

get_medication_by_id(t, n, id) ==
  LET n1 == get_connection(n)
      row == fetchone(RowsWithId(t, id))
  IN  Ret(t, close(n1), "ok", row_2_dict(row))

\* [row_2_dict(r) for r in rows]
Dicts(rows) == [i \in 1..Len(rows) |-> row_2_dict(rows[i])]

get_medications_by_person(t, n, person_name) ==
  LET n1 == get_connection(n)
      rows == fetchall(SelectLike(t, 2, person_name))
  IN  Ret(t, close(n1), "ok", Dicts(rows))

get_medications_by_condition(t, n, condition) ==
  LET n1 == get_connection(n)
      rows == fetchall(SelectLike(t, 4, condition))
  IN  Ret(t, close(n1), "ok", Dicts(rows))

get_medications_by_medicine(t, n, medicine_name) ==
  LET n1 == get_connection(n)
      rows == fetchall(SelectLike(t, 5, medicine_name))
  IN  Ret(t, close(n1), "ok", Dicts(rows))

\* faulty variant: the connection is closed without conn.commit()
delete_medication_nocommit(t, n, id) ==
  LET n1 == get_connection(n)
      row == fetchone(SelectId(t, id))
  IN  IF row = None
        THEN Ret(t, close(n1), "ValueError", None)
      ELSE Ret(t, close(n1), "ok", None)

delete_medication(t, n, id) ==
  LET n1 == get_connection(n)
      row == fetchone(SelectId(t, id))
  IN  IF row = None
        THEN Ret(t, close(n1), "ValueError", None)
      ELSE Ret(SqlDelete(t, id), close(n1), "ok", None)

\* faulty variant: no existence check before the UPDATE
update_medications_nocheck(t, n, id, m) ==
  LET n1 == get_connection(n)
  IN  IF NotNullViolated(m)
        THEN Ret(t, n1, "IntegrityError", None)
      ELSE Ret(SqlUpdate(t, id, m), close(n1), "ok", None)

update_medications(t, n, id, m) ==
  LET n1 == get_connection(n)
      row == fetchone(SelectId(t, id))
  IN  IF row = None
        THEN Ret(t, close(n1), "ValueError", None)
      ELSE IF NotNullViolated(m)
        THEN Ret(t, n1, "IntegrityError", None)
      ELSE Ret(SqlUpdate(t, id, m), close(n1), "ok", None)

\* the loop body for i, i+1, ..; f[i] is the record drawn at random for i.
\* ValueError is swallowed, any other exception leaves the loop.
RECURSIVE random_loop(_, _, _, _)
random_loop(t, n, f, i) ==
  IF i > MaxId THEN Ret(t, n, "ok", None)
  ELSE LET r == add_medication(t, n, i, f[i])
       IN  IF r.outcome \in {"ok", "ValueError"}
             THEN random_loop(r.table, r.open, f, i + 1)
           ELSE r

create_random_data(t, n, f) == random_loop(t, n, f, 1)

\* TestMedications.setUp: DELETE FROM medications, then add record 1
setUp(t, n) ==
  LET n1 == get_connection(n)
  IN  add_medication({}, close(n1), 1, TestFields)

(***************************************************************************)
(* One caller: every step is one whole call                                *)
(***************************************************************************)
\* module load: CREATE TABLE IF NOT EXISTS on a fresh file, connection closed
ModuleLoad == Ret({}, close(get_connection(0)), "ok", None)

ConcIdle ==
  /\ pc = [p \in Procs |-> "idle"]
  /\ args = [p \in Procs |-> None]
  /\ lock = [p \in Procs |-> "none"]
  /\ pending = [p \in Procs |-> None]
  /\ outcome = [p \in Procs |-> "none"]

Init ==
  /\ table = ModuleLoad.table
  /\ openConns = ModuleLoad.open
  /\ call = [op |-> "import", outcome |-> "ok"]
  /\ ConcIdle

\* the caller is between calls: no frame of an earlier call is still alive
Idle == openConns = 0

\* the call described by c runs to its end r
Apply(r, c) ==
  /\ table' = r.table
  /\ openConns' = r.open
  /\ call' = c @@ [outcome |-> r.outcome, result |-> r.result]
  /\ UNCHANGED concVars

Add(id, m) ==
  /\ Idle
  /\ Apply(add_medication(table, openConns, id, m),
           [op |-> "add", id |-> id, m |-> m])

GetById(id) ==
  /\ Idle
  /\ Apply(get_medication_by_id(table, openConns, id),
           [op |-> "get_by_id", id |-> id])

GetByPerson(s) ==
  /\ Idle
  /\ Apply(get_medications_by_person(table, openConns, s),
           [op |-> "get_by_person", needle |-> s])

GetByCondition(s) ==
  /\ Idle
  /\ Apply(get_medications_by_condition(table, openConns, s),
           [op |-> "get_by_condition", needle |-> s])

GetByMedicine(s) ==
  /\ Idle
  /\ Apply(get_medications_by_medicine(table, openConns, s),
           [op |-> "get_by_medicine", needle |-> s])

Delete(id) ==
  /\ Idle
  /\ Apply(delete_medication(table, openConns, id),
           [op |-> "delete", id |-> id])

Update(id, m) ==
  /\ Idle
  /\ Apply(update_medications(table, openConns, id, m),
           [op |-> "update", id |-> id, m |-> m])

CreateRandomData(f) ==
  /\ Idle
  /\ Apply(create_random_data(table, openConns, f),
           [op |-> "create_random_data", f |-> f])

SetUp ==
  /\ Idle
  /\ Apply(setUp(table, openConns), [op |-> "setUp"])

\* the exception of a call the engine rejected leaves the caller: the frame
\* and its `conn` local are reclaimed, which closes the connection
Unwind ==
  /\ openConns > 0
  /\ openConns' = close(openConns)
  /\ call' = [op |-> "unwind", outcome |-> "ok"]
  /\ UNCHANGED <<table, concVars>>

DoAdd == \E id \in Ids, m \in Fields : Add(id, m)

DoGetById == \E id \in Ids : GetById(id)

DoGetByPerson == \E s \in Needles : GetByPerson(s)

DoGetByCondition == \E s \in Needles : GetByCondition(s)

DoGetByMedicine == \E s \in Needles : GetByMedicine(s)

DoDelete == \E id \in Ids : Delete(id)

DoUpdate == \E id \in Ids, m \in Fields : Update(id, m)

DoCreateRandomData == \E f \in [Ids -> RandomFields] : CreateRandomData(f)

Next ==
  \/ DoAdd
  \/ DoGetById
  \/ DoGetByPerson
  \/ DoGetByCondition
  \/ DoGetByMedicine
  \/ DoDelete
  \/ DoUpdate
  \/ DoCreateRandomData
  \/ SetUp
  \/ Unwind

Spec == Init /\ [][Next]_vars

(***************************************************************************)
(* Two callers of add_medication: every step is one statement of one       *)
(* caller.  A writer holds the database's RESERVED lock from its INSERT     *)
(* until its connection commits or is closed; a second writer's INSERT     *)
(* waits for it, and gives up with "database is locked" after the          *)
(* connection's busy timeout.  SELECT reads the committed table.           *)
(***************************************************************************)
Others(p) == Procs \ {p}

Busy(p) == \E q \in Others(p) : lock[q] = "reserved"

\* tables the two calls can start from: a fresh one, and setUp's
InitTables == {ModuleLoad.table, setUp(ModuleLoad.table, 0).table}

ConcInit ==
  /\ table \in InitTables
  /\ openConns = 0
  /\ call = [op |-> "import", outcome |-> "ok"]
  /\ ConcIdle

\* the call and `conn = get_connection()`
AddCall(p, id, m) ==
  /\ pc[p] = "idle"
  /\ args' = [args EXCEPT ![p] = [id |-> id, m |-> m]]
  /\ openConns' = get_connection(openConns)
  /\ pc' = [pc EXCEPT ![p] = "select"]
  /\ UNCHANGED <<table, call, lock, pending, outcome>>

\* SELECT id ..; existing = cur.fetchone(); if existing is not None
AddSelect(p) ==
  /\ pc[p] = "select"
  /\ LET existing == fetchone(SelectId(table, args[p].id))
     IN  pc' = [pc EXCEPT ![p] = IF existing # None THEN "exists"
                                 ELSE "insert"]
  /\ UNCHANGED <<table, openConns, call, args, lock, pending, outcome>>

\* conn.close(); raise ValueError
AddRaiseExists(p) ==
  /\ pc[p] = "exists"
  /\ openConns' = close(openConns)
  /\ outcome' = [outcome EXCEPT ![p] = "ValueError"]
  /\ pc' = [pc EXCEPT ![p] = "done"]
  /\ UNCHANGED <<table, call, args, lock, pending>>

\* INSERT INTO medications ..: takes the RESERVED lock, then the engine
\* checks the constraints; a rejected statement leaves the transaction (and
\* the lock) open and the function without closing the connection
AddInsert(p) ==
  /\ pc[p] = "insert"
  /\ ~Busy(p)
  /\ lock' = [lock EXCEPT ![p] = "reserved"]
  /\ IF NotNullViolated(args[p].m) \/ UniqueViolated(table, args[p].id)
       THEN /\ outcome' = [outcome EXCEPT ![p] = "IntegrityError"]
            /\ pc' = [pc EXCEPT ![p] = "raised"]
            /\ UNCHANGED pending
       ELSE /\ pending' = [pending EXCEPT
                             ![p] = MakeRow(args[p].id, args[p].m)]
            /\ pc' = [pc EXCEPT ![p] = "commit"]
            /\ UNCHANGED outcome
  /\ UNCHANGED <<table, openConns, call, args>>

\* INSERT while another connection holds the lock, busy timeout expired
AddInsertBusy(p) ==
  /\ pc[p] = "insert"
  /\ Busy(p)
  /\ outcome' = [outcome EXCEPT ![p] = "OperationalError"]
  /\ pc' = [pc EXCEPT ![p] = "raised"]
  /\ UNCHANGED <<table, openConns, call, args, lock, pending>>

\* conn.commit()
AddCommit(p) ==
  /\ pc[p] = "commit"
  /\ table' = table \cup {pending[p]}
  /\ pending' = [pending EXCEPT ![p] = None]
  /\ lock' = [lock EXCEPT ![p] = "none"]
  /\ pc' = [pc EXCEPT ![p] = "close"]
  /\ UNCHANGED <<openConns, call, args, outcome>>

\* conn.close() and return
AddClose(p) ==
  /\ pc[p] = "close"
  /\ openConns' = close(openConns)
  /\ outcome' = [outcome EXCEPT ![p] = "ok"]
  /\ pc' = [pc EXCEPT ![p] = "done"]
  /\ UNCHANGED <<table, call, args, lock, pending>>

\* the engine's exception leaves the caller: the connection is reclaimed,
\* its transaction rolled back and its lock released
AddUnwind(p) ==
  /\ pc[p] = "raised"
  /\ openConns' = close(openConns)
  /\ lock' = [lock EXCEPT ![p] = "none"]
  /\ pc' = [pc EXCEPT ![p] = "done"]
  /\ UNCHANGED <<table, call, args, pending, outcome>>

ConcNext ==
  \/ \E p \in Procs, id \in Ids, m \in Fields : AddCall(p, id, m)
  \/ \E p \in Procs : AddSelect(p)
  \/ \E p \in Procs : AddRaiseExists(p)
  \/ \E p \in Procs : AddInsert(p)
  \/ \E p \in Procs : AddInsertBusy(p)
  \/ \E p \in Procs : AddCommit(p)
  \/ \E p \in Procs : AddClose(p)
  \/ \E p \in Procs : AddUnwind(p)

SpecConc == ConcInit /\ [][ConcNext]_vars

(***************************************************************************)
(* Properties                                                              *)
(***************************************************************************)
\* what get_by_id(id) returns on table t
Lookup(t, id) == get_medication_by_id(t, 0, id).result

\* the record a caller passes as (id, m), as a dict of nine fields
Dict(id, m) ==
  [id |-> id, person_name |-> m.person_name, age |-> m.age,
   condition |-> m.condition, medicine_name |-> m.medicine_name,
   dosage |-> m.dosage, frequency |-> m.frequency,
   start_date |-> m.start_date, end_date |-> m.end_date]

Present(t, id) == \E r \in t : r[1] = id

Absent(t, id) == ~Present(t, id)

Range(f) == {f[i] : i \in DOMAIN f}

Searches == {"get_by_person", "get_by_condition", "get_by_medicine"}

Reads == Searches \cup {"get_by_id"}

PublicOps == Reads \cup {"add", "update", "delete"}

\* text contains s as a literal, case-sensitive substring
Contains(text, s) ==
  \E k \in 1..(Len(text) + 1) :
    /\ k + Len(s) - 1 <= Len(text)
    /\ SubSeq(text, k, k + Len(s) - 1) = s

\* C1: after add(r) succeeds for an id that was not in the store,
\* get_by_id(r.id) returns r in all nine fields, and keeps returning it
\* across every step that is not an update or a delete of that id (setUp's
\* DELETE FROM medications deletes every id).
C1_RoundTrip ==
  [][/\ (call'.op = "add" /\ call'.outcome = "ok"
           /\ Absent(table, call'.id))
          => Lookup(table', call'.id) = Dict(call'.id, call'.m)
     /\ \A id \in Ids :
          (/\ Lookup(table, id) # None
           /\ call'.op # "setUp"
           /\ ~(call'.op \in {"update", "delete"} /\ call'.id = id))
            => Lookup(table', id) = Lookup(table, id)
     /\ (call'.op = "get_by_id")
          => call'.result = Lookup(table, call'.id)]_vars

\* a lookup has returned a stored record, all nine fields as they were added
C1_Witness ==
  /\ call.op = "get_by_id"
  /\ call.result \in {Dict(call.id, m) : m \in WellFormed}

\* C2: add with an id already in the store fails with ValueError whatever
\* the other fields are, and the store (so the record under that id) is the
\* same after the call as before.
C2_DuplicateAdd ==
  [][(call'.op = "add" /\ Present(table, call'.id))
       => /\ call'.outcome = "ValueError"
          /\ table' = table
          /\ Lookup(table', call'.id) = Lookup(table, call'.id)]_vars

\* a duplicate add was refused, here one whose other fields are incomplete
C2_Witness ==
  /\ call.op = "add"
  /\ call.outcome = "ValueError"
  /\ call.m \notin WellFormed
  /\ Present(table, call.id)

\* C3: update(id, m) of an id in the store, m giving all eight fields,
\* succeeds, and get_by_id(id) then returns id with the eight new values.
C3_Update ==
  [][(call'.op = "update" /\ Present(table, call'.id)
        /\ call'.m \in WellFormed)
       => /\ call'.outcome = "ok"
          /\ Lookup(table', call'.id) = Dict(call'.id, call'.m)]_vars

\* an update has replaced a record by one that differs in every field
C3_Witness ==
  /\ call.op = "update"
  /\ call.outcome = "ok"
  /\ call.m = UpdatedFields
  /\ Lookup(table, call.id) = Dict(call.id, UpdatedFields)

\* C4: delete(id) of an id in the store succeeds and removes it; an absent
\* id stays absent until an add of it succeeds (add, create_random_data or
\* setUp); while absent, get_by_id(id) returns None without an error and no
\* search returns a record with that id.
C4_Delete ==
  [][\A id \in Ids :
       /\ (call'.op = "delete" /\ call'.id = id /\ Present(table, id))
            => (call'.outcome = "ok" /\ Absent(table', id))
       /\ (/\ Absent(table, id)
           /\ call'.op \notin {"create_random_data", "setUp"}
           /\ ~(call'.op = "add" /\ call'.id = id /\ call'.outcome = "ok"))
            => Absent(table', id)
       /\ (call'.op = "get_by_id" /\ call'.id = id /\ Absent(table, id))
            => (call'.outcome = "ok" /\ call'.result = None)
       /\ (call'.op \in Searches /\ Absent(table, id))
            => \A d \in Range(call'.result) : d.id # id]_vars

\* a delete has succeeded and the id is gone
C4_Witness ==
  /\ call.op = "delete"
  /\ call.outcome = "ok"
  /\ Lookup(table, call.id) = None

\* C5: update and delete of an id absent from the store fail with
\* ValueError and leave the store as it was; no record appears under the id.
C5_NotFound ==
  [][(call'.op \in {"update", "delete"} /\ Absent(table, call'.id))
       => /\ call'.outcome = "ValueError"
          /\ table' = table
          /\ Absent(table', call'.id)]_vars

\* an update of an absent id was refused
C5_Witness ==
  /\ call.op = "update"
  /\ call.outcome = "ValueError"
  /\ Absent(table, call.id)

\* C6: get_by_person(s) returns all and only the stored records whose
\* person_name contains s as a case-sensitive literal substring.
C6_PersonSearch ==
  [][(call'.op = "get_by_person")
       => Range(call'.result) =
            {row_2_dict(r) : r \in {q \in table :
                                      Contains(q[2], call'.needle)}}]_vars

\* C7: no two rows of the table have the same id.
C7_UniqueId == \A r \in table : \A q \in table : r[1] = q[1] => r = q

\* the table holds several rows and an add of a taken id was just refused
C7_Witness ==
  /\ Cardinality(table) >= 2
  /\ call.op = "add"
  /\ call.outcome = "ValueError"

\* C8: every public operation leaves as many connections open as it found,
\* however it ends.
C8_ConnectionsReleased ==
  [][(call'.op \in PublicOps) => openConns' = openConns]_vars

\* C9: a successful add, update or delete of id leaves the rows of every
\* other id as they were; the read operations leave the whole table as it
\* was.
C9_Frame ==
  [][/\ (call'.op \in {"add", "update", "delete"} /\ call'.outcome = "ok")
          => \A j \in Ids \ {call'.id} :
               /\ RowsWithId(table', j) = RowsWithId(table, j)
               /\ Lookup(table', j) = Lookup(table, j)
     /\ (call'.op \in Reads) => table' = table]_vars

\* a delete has succeeded and another record is still in the table
C9_Witness ==
  /\ call.op = "delete"
  /\ call.outcome = "ok"
  /\ table # {}

BothDone(p, q) ==
  /\ p # q
  /\ pc[p] = "done"
  /\ pc[q] = "done"
  /\ args[p].id = args[q].id

\* C10 as stated: of two interleaved adds of one id at most one succeeds,
\* the table then holds exactly that add's record under the id, and the
\* other add ended in its own duplicate check (ValueError) or in the
\* engine's constraint error (IntegrityError).
C10_Original ==
  \A p \in Procs : \A q \in Procs :
    BothDone(p, q)
      => /\ ~(outcome[p] = "ok" /\ outcome[q] = "ok")
         /\ (outcome[p] = "ok")
              => /\ RowsWithId(table, args[p].id)
                      = {MakeRow(args[p].id, args[p].m)}
                 /\ outcome[q] \in {"ValueError", "IntegrityError"}

\* C10 amended: as C10_Original, the other add ending in ValueError,
\* IntegrityError or the busy timeout's OperationalError.
C10_Amended ==
  \A p \in Procs : \A q \in Procs :
    BothDone(p, q)
      => /\ ~(outcome[p] = "ok" /\ outcome[q] = "ok")
         /\ (outcome[p] = "ok")
              => /\ RowsWithId(table, args[p].id)
                      = {MakeRow(args[p].id, args[p].m)}
                 /\ outcome[q] \in {"ValueError", "IntegrityError",
                                    "OperationalError"}

\* both adds of one id passed their existence check; one committed, the
\* other, with a complete record, was stopped by the primary key
C10_Witness ==
  \E p \in Procs : \E q \in Procs :
    /\ BothDone(p, q)
    /\ outcome[p] = "ok"
    /\ outcome[q] = "IntegrityError"
    /\ args[q].m \in WellFormed

====
